---- MODULE Spec2Model ----
(***************************************************************************)
(* render-status: a terminal monitor that polls the Render API and shows   *)
(* the status of services and cron jobs.                                   *)
(*                                                                         *)
(*   client.py  RenderClient: get_services, get_deploys, get_jobs          *)
(*   cli.py     format_timestamp, get_status_color, build_services_output, *)
(*              display_services, generate_display, main                   *)
(*                                                                         *)
(* Data representation.  Python values are tagged records; a field name    *)
(* always carries values of one type.                                      *)
(*   None                      [t |-> "None"]                              *)
(*   an opaque string          [t |-> "str", s |-> "invalid"]              *)
(*   an integer                [t |-> "int", n |-> 5]                      *)
(*   an ISO-8601 string        [t |-> "iso", day, hour, z, off]            *)
(*       "YYYY-MM-DDTHH:00:00" followed by "Z" (z = TRUE) or by a numeric  *)
(*       offset "+hh:00" (off, in hours); day is the proleptic Gregorian   *)
(*       ordinal of the calendar date (date.toordinal(): 0001-01-01 is 1). *)
(*   a formatted timestamp     [t |-> "fmt", day, hour, tzname]            *)
(*       "YYYY-MM-DD HH:00:00 <tzname>"                                    *)
(* Status strings, which get_status_color inspects character by character, *)
(* are sequences of one-character strings.                                 *)
(***************************************************************************)
EXTENDS Integers, Sequences, FiniteSets, TLC

VARIABLES
    pc,          \* main(): position of the process
    once,        \* main(): args.once
    api_key,     \* main(): whether RENDER_API_KEY is set
    tz,          \* the local time zone of the system (datetime.astimezone())
    display,     \* what the console / the Live display shows last
    log,         \* events of the live loop, in order: "poll", "sleep"
    requests,    \* number of get_services calls issued so far
    clock,       \* time slept so far (time.sleep)
    interrupted, \* a KeyboardInterrupt has been raised
    stopped,     \* the "Stopped" message has been printed
    session,     \* httpx session of the client: "none", "open", "closed"
    exit_code,   \* exit status of the process, -1 while it runs
    uncaught,    \* exception that left main() uncaught, "none" otherwise
    arg,         \* SpecBuild, SpecTs, SpecColor, SpecJobs: the argument of the function
    ret,         \* its result
    called       \* whether it has been applied

vars == <<pc, once, api_key, tz, display, log, requests, clock, interrupted,
          stopped, session, exit_code, uncaught, arg, ret, called>>

mainVars == <<pc, once, api_key, display, log, requests, clock, interrupted,
              stopped, session, exit_code, uncaught>>

-----------------------------------------------------------------------------
(* Bounds of the model *)

\* longest services list checked for build_services_output
MaxServices == 2
\* longest services list a poll of the live loop returns
MaxLiveServices == 1
\* polls of the live loop
MaxPolls == 3
\* longest jobs response
MaxJobs == 3

-----------------------------------------------------------------------------
(* Python values *)

None == [t |-> "None"]

PyStr(s) == [t |-> "str", s |-> s]

PyInt(n) == [t |-> "int", n |-> n]

IsoStr(day, hour, z, off) == [t |-> "iso", day |-> day, hour |-> hour, z |-> z, off |-> off]

\* the result of a call: a value, or the exception it raised
Return(v) == [exc |-> "none", val |-> v]

Raise(e) == [exc |-> e, val |-> None]

\* Python truthiness of the values above (`if not ts`, `if last_run_ts`)
Falsy(v) == v = None \/ v = PyStr("") \/ v = PyInt(0)

\* date.min.toordinal() and date.max.toordinal(): 0001-01-01 and 9999-12-31
MinOrdinal == 1

MaxOrdinal == 3652059

\* the local zones checked: name and UTC offset in hours
LocalZones == {[name |-> "EST", off |-> -5], [name |-> "UTC", off |-> 0], [name |-> "JST", off |-> 9]}

\* the calendar dates checked: 0001-01-01, 2025-11-25, 9999-12-31
Days == {MinOrdinal, 739580, MaxOrdinal}

Hours == {0, 12, 23}

\* timestamps as the API sends them: "...Z", or with a numeric offset
IsoStrings == {IsoStr(d, h, TRUE, 0) : d \in Days, h \in Hours}
                 \cup {IsoStr(d, h, FALSE, o) : d \in Days, h \in Hours, o \in {0, 5}}

-----------------------------------------------------------------------------
(* cli.py: format_timestamp *)

\* ts.replace("Z", "+00:00"); a value that is no string has no replace
str_replace_Z(ts) ==
    CASE ts.t = "iso" -> Return(IsoStr(ts.day, ts.hour, FALSE, ts.off))
      [] ts.t = "str" -> Return(ts)
      [] OTHER -> Raise("AttributeError")

\* datetime.fromisoformat: an aware datetime, or ValueError
fromisoformat(s) ==
    IF s.t = "iso"
    THEN Return([day |-> s.day, hour |-> s.hour, off |-> s.off])
    ELSE Raise("ValueError")

\* dt.astimezone(): the instant in UTC (dt - dt.utcoffset()), then on the
\* local clock; OverflowError when either falls outside datetime.min ..
\* datetime.max
astimezone(dt, zone) ==
    LET utc == (dt.day - 1) * 24 + dt.hour - dt.off
        total == utc + zone.off
        day == (total \div 24) + 1
    IN IF utc < 0 \/ utc >= MaxOrdinal * 24 \/ day < MinOrdinal \/ day > MaxOrdinal
       THEN Raise("OverflowError")
       ELSE Return([day |-> day, hour |-> total % 24, tzname |-> zone.name])

\* local_dt.strftime(f"%Y-%m-%d %H:%M:%S {tz_name}")
strftime(local_dt) ==
    [t |-> "fmt", day |-> local_dt.day, hour |-> local_dt.hour, tzname |-> local_dt.tzname]

format_timestamp(ts, zone) ==
    IF Falsy(ts) THEN Return(PyStr("N/A"))
    ELSE LET replaced == str_replace_Z(ts) IN
         IF replaced.exc = "AttributeError" THEN Return(ts)
         ELSE LET dt == fromisoformat(replaced.val) IN
              IF dt.exc = "ValueError" THEN Return(ts)
              ELSE LET local_dt == astimezone(dt.val, zone) IN
                   IF local_dt.exc # "none" THEN Raise(local_dt.exc)
                   ELSE Return(strftime(local_dt.val))

-----------------------------------------------------------------------------
(* cli.py: get_status_color *)

Uppers == <<"A","B","C","D","E","F","G","H","I","J","K","L","M","N","O","P","Q","R","S","T","U","V","W","X","Y","Z">>

Lowers == <<"a","b","c","d","e","f","g","h","i","j","k","l","m","n","o","p","q","r","s","t","u","v","w","x","y","z">>

lower_char(c) ==
    IF \E i \in DOMAIN Uppers : Uppers[i] = c
    THEN Lowers[CHOOSE i \in DOMAIN Uppers : Uppers[i] = c]
    ELSE c

upper_char(c) ==
    IF \E i \in DOMAIN Lowers : Lowers[i] = c
    THEN Uppers[CHOOSE i \in DOMAIN Lowers : Lowers[i] = c]
    ELSE c

\* str.lower()
lower(s) == [i \in DOMAIN s |-> lower_char(s[i])]

W_live == <<"l", "i", "v", "e">>

W_succeeded == <<"s", "u", "c", "c", "e", "e", "d", "e", "d">>

W_success == <<"s", "u", "c", "c", "e", "s", "s">>

W_building == <<"b", "u", "i", "l", "d", "i", "n", "g">>

W_deploying == <<"d", "e", "p", "l", "o", "y", "i", "n", "g">>

W_running == <<"r", "u", "n", "n", "i", "n", "g">>

W_build_failed == <<"b", "u", "i", "l", "d", "_", "f", "a", "i", "l", "e", "d">>

W_failed == <<"f", "a", "i", "l", "e", "d">>

W_canceled == <<"c", "a", "n", "c", "e", "l", "e", "d">>

get_status_color_no_lower(status) ==
    IF status \in {W_live, W_succeeded, W_success} THEN "green"
    ELSE IF status \in {W_building, W_deploying, W_running} THEN "yellow"
    ELSE IF status \in {W_build_failed, W_failed, W_canceled} THEN "red"
    ELSE "white"

get_status_color(status) ==
    LET status_lower == lower(status) IN
    IF status_lower \in {W_live, W_succeeded, W_success} THEN "green"
    ELSE IF status_lower \in {W_building, W_deploying, W_running} THEN "yellow"
    ELSE IF status_lower \in {W_build_failed, W_failed, W_canceled} THEN "red"
    ELSE "white"

-----------------------------------------------------------------------------
(* client.py: RenderClient *)

\* a key that a JSON object does not hold
Missing == [t |-> "missing"]

\* dict.get(key, default) on a field that may be Missing
dict_get(v, default) == IF v = Missing THEN default ELSE v

\* the result of a call that returns a list
ReturnList(l) == [exc |-> "none", list |-> l]

RaiseList(e) == [exc |-> e, list |-> <<>>]

\* An HTTP response: error = TRUE for a network failure or a non-2xx status
\* (response.raise_for_status()), else data is the decoded JSON body.
get_services(response) ==
    IF response.error THEN RaiseList("HTTPError")
    ELSE ReturnList([i \in DOMAIN response.data |-> response.data[i].service])

get_deploys(response, service_id, limit) ==
    IF response.error THEN RaiseList("HTTPError")
    ELSE ReturnList([i \in DOMAIN response.data |-> response.data[i].deploy])

\* An element of a jobs response is an envelope {"job": J} (shape "envelope")
\* or a job object J itself (shape "flat"); "job" in item holds of an envelope
\* only, and item["job"] of a flat job object raises KeyError.
has_job_key(item) == item.shape = "envelope"

unwrap_job(item) == [shape |-> "flat", job |-> item.job]

get_jobs(response) ==
    IF response.error THEN RaiseList("HTTPError")
    ELSE LET data == response.data IN
         IF data # <<>> /\ has_job_key(data[1])
         THEN IF \E i \in DOMAIN data : ~has_job_key(data[i])
              THEN RaiseList("KeyError")
              ELSE ReturnList([i \in DOMAIN data |-> unwrap_job(data[i])])
         ELSE ReturnList(data)

-----------------------------------------------------------------------------
(* cli.py: build_services_output *)

W_Error == <<"E", "r", "r", "o", "r">>

W_NA == <<"N", "/", "A">>

\* a cell of rich markup: f"[{style}]{text}[/{style}]", plain text when style = ""
Cell(style, text) == [style |-> style, text |-> text]

\* limit passed to get_deploys
DeployLimit == 1

GetServicesCall == [fn |-> "get_services", id |-> 0, limit |-> 0]

GetDeploysCall(service_id, limit) == [fn |-> "get_deploys", id |-> service_id, limit |-> limit]

\* lines 97-107: the latest deploy of a non-cron service; every Exception of the
\* block is caught and shown as the Error cell
latest_deploy(service, response, zone) ==
    LET deploys == get_deploys(response, service.id, DeployLimit)
        calls == <<GetDeploysCall(service.id, DeployLimit)>>
    IN IF deploys.exc # "none"
       THEN [status |-> Cell("red", W_Error), time |-> PyStr("N/A"), calls |-> calls]
       ELSE IF deploys.list = <<>>
       THEN [status |-> Cell("", W_NA), time |-> PyStr("N/A"), calls |-> calls]
       ELSE LET latest == deploys.list[1]
                status == IF latest.has_status THEN latest.status ELSE W_NA
                color == get_status_color(status)
                created == format_timestamp(dict_get(latest.createdAt, None), zone)
            IN IF created.exc # "none"
               THEN [status |-> Cell("red", W_Error), time |-> PyStr("N/A"), calls |-> calls]
               ELSE [status |-> Cell(color, status), time |-> created.val, calls |-> calls]

\* lines 89-117: one iteration of the loop over services
service_row(service, response, zone) ==
    LET latest == IF service.type # "cron_job"
                  THEN latest_deploy(service, response, zone)
                  ELSE [status |-> Cell("", W_NA), time |-> PyStr("N/A"), calls |-> <<>>]
        updated_at == format_timestamp(dict_get(service.updatedAt, None), zone)
    IN IF updated_at.exc # "none"
       THEN [exc |-> updated_at.exc, row |-> <<>>, calls |-> latest.calls]
       ELSE [exc |-> "none",
             row |-> <<[name |-> service.name, type |-> service.type,
                        status |-> latest.status, deploy_time |-> latest.time,
                        updated |-> updated_at.val]>>,
             calls |-> latest.calls]

\* lines 88-117: the loop, which an exception leaves at once
RECURSIVE services_rows(_, _, _, _, _, _)
services_rows(services, deploys, zone, i, rows, calls) ==
    IF i > Len(services) THEN [exc |-> "none", rows |-> rows, calls |-> calls]
    ELSE LET r == service_row(services[i], deploys[i], zone) IN
         IF r.exc # "none"
         THEN [exc |-> r.exc, rows |-> rows, calls |-> calls \o r.calls]
         ELSE services_rows(services, deploys, zone, i + 1, rows \o r.row, calls \o r.calls)

\* line 120: [s for s in services if s.get("type") == "cron_job"]
cron_filter(services) == SelectSeq(services, LAMBDA s : s.type = "cron_job")

\* lines 129-140: one row of the cron table
cron_row(service, zone) ==
    LET schedule == dict_get(service.serviceDetails.schedule, PyStr("N/A"))
        last_run_ts == dict_get(service.serviceDetails.lastSuccessfulRunAt, None)
        last_run == IF ~Falsy(last_run_ts) THEN format_timestamp(last_run_ts, zone)
                    ELSE Return(PyStr("N/A"))
        job_status == IF ~Falsy(last_run_ts) THEN Cell("bold green", W_succeeded)
                      ELSE Cell("", W_NA)
    IN IF last_run.exc # "none"
       THEN [exc |-> last_run.exc, row |-> <<>>]
       ELSE [exc |-> "none",
             row |-> <<[name |-> service.name, schedule |-> schedule,
                        last_run |-> last_run.val, status |-> job_status]>>]

RECURSIVE cron_rows(_, _, _, _)
cron_rows(cron_services, zone, i, rows) ==
    IF i > Len(cron_services) THEN [exc |-> "none", rows |-> rows]
    ELSE LET r == cron_row(cron_services[i], zone) IN
         IF r.exc # "none" THEN [exc |-> r.exc, rows |-> rows]
         ELSE cron_rows(cron_services, zone, i + 1, rows \o r.row)

\* What build_services_output returns: `tables` renderables (1: a Table, 2: a
\* tuple of two), the rows of the first and of the cron table, and the client
\* calls it made; exc is the exception it raised instead, if any.
Output(kind, tables, rows, cron, calls) ==
    [exc |-> "none", kind |-> kind, tables |-> tables, rows |-> rows, cron |-> cron, calls |-> calls]

Raised(exc, calls) ==
    [exc |-> exc, kind |-> "none", tables |-> 0, rows |-> <<>>, cron |-> <<>>, calls |-> calls]

\* lines 80-144: the tables of a non-empty services list
build_tables(services, deploys, zone, calls) ==
    LET main == services_rows(services, deploys, zone, 1, <<>>, calls) IN
    IF main.exc # "none" THEN Raised(main.exc, main.calls)
    ELSE LET cron_services == cron_filter(services) IN
         IF cron_services # <<>>
         THEN LET cron == cron_rows(cron_services, zone, 1, <<>>) IN
              IF cron.exc # "none" THEN Raised(cron.exc, main.calls)
              ELSE Output("services", 2, main.rows, cron.rows, main.calls)
         ELSE Output("services", 1, main.rows, <<>>, main.calls)

\* build_services_output without the try around client.get_services()
build_services_output_no_try(services_response, deploys, zone) ==
    LET services == get_services(services_response)
        calls == <<GetServicesCall>>
    IN IF services.exc # "none" THEN Raised(services.exc, calls)
       ELSE IF services.list = <<>>
       THEN Output("empty", 1, <<[message |-> "No services found", style |-> "yellow"]>>, <<>>, calls)
       ELSE build_tables(services.list, deploys, zone, calls)

\* build_services_output without the `if not services` placeholder
build_services_output_no_placeholder(services_response, deploys, zone) ==
    LET services == get_services(services_response)
        calls == <<GetServicesCall>>
    IN IF services.exc # "none"
       THEN Output("error", 1, <<[message |-> "Error fetching services", style |-> "red"]>>, <<>>, calls)
       ELSE build_tables(services.list, deploys, zone, calls)

\* cli.py build_services_output(client): services_response and deploys are the
\* responses the API gives to the calls of this invocation (deploys[i] to the
\* request for the deploys of the i-th service)
build_services_output(services_response, deploys, zone) ==
    LET services == get_services(services_response)
        calls == <<GetServicesCall>>
    IN IF services.exc # "none"
       THEN Output("error", 1, <<[message |-> "Error fetching services", style |-> "red"]>>, <<>>, calls)
       ELSE IF services.list = <<>>
       THEN Output("empty", 1, <<[message |-> "No services found", style |-> "yellow"]>>, <<>>, calls)
       ELSE build_tables(services.list, deploys, zone, calls)

-----------------------------------------------------------------------------
(* Responses of the API *)

\* "2025-11-25T12:00:00Z", and Go's zero time "0001-01-01T00:00:00Z"
NormalTs == IsoStr(739580, 12, TRUE, 0)

ZeroTs == IsoStr(MinOrdinal, 0, TRUE, 0)

NoDetails == [schedule |-> Missing, lastSuccessfulRunAt |-> Missing]

\* service objects less their id and name
ServiceTemplates ==
    {[type |-> "web_service", updatedAt |-> u, serviceDetails |-> NoDetails] : u \in {NormalTs, ZeroTs}}
    \cup {[type |-> "cron_job", updatedAt |-> NormalTs,
           serviceDetails |-> [schedule |-> PyStr("0 * * * *"), lastSuccessfulRunAt |-> l]] :
          l \in {Missing, NormalTs, ZeroTs}}

\* the i-th service of a listing: {"id": "srv-i", "name": "service-i", ...}
Service(i, tpl) ==
    [id |-> i, name |-> i, type |-> tpl.type, updatedAt |-> tpl.updatedAt,
     serviceDetails |-> tpl.serviceDetails]

W_LIVE == [i \in DOMAIN W_live |-> upper_char(W_live[i])]

DeployObjects ==
    {[has_status |-> TRUE, status |-> W_live, createdAt |-> NormalTs],
     [has_status |-> TRUE, status |-> W_LIVE, createdAt |-> NormalTs],
     [has_status |-> TRUE, status |-> W_failed, createdAt |-> ZeroTs],
     [has_status |-> FALSE, status |-> <<>>, createdAt |-> Missing]}

HttpError == [error |-> TRUE, data |-> <<>>]

HttpOk(data) == [error |-> FALSE, data |-> data]

\* responses to GET /services/{id}/deploys?limit=1
DeployResponses == {HttpError, HttpOk(<<>>)} \cup {HttpOk(<<[deploy |-> d]>>) : d \in DeployObjects}

\* no deploys request is made for a cron job: its slot holds no response
NoRequest == HttpOk(<<>>)

ServiceLists(n) ==
    UNION {{[i \in 1..k |-> [service |-> Service(i, f[i])]] : f \in [1..k -> ServiceTemplates]} : k \in 0..n}

DeploysFor(data) ==
    {d \in [DOMAIN data -> DeployResponses] :
        \A i \in DOMAIN data : data[i].service.type = "cron_job" => d[i] = NoRequest}

\* what the API answers during one build_services_output
BuildInputs(n) ==
    {[svc |-> HttpError, deps |-> <<>>]}
    \cup UNION {{[svc |-> HttpOk(data), deps |-> d] : d \in DeploysFor(data)} : data \in ServiceLists(n)}

JobObjects == {[id |-> 1, status |-> "succeeded"], [id |-> 2, status |-> "failed"]}

JobItems == {[shape |-> sh, job |-> j] : sh \in {"envelope", "flat"}, j \in JobObjects}

JobsResponses ==
    {HttpError} \cup UNION {{HttpOk(f) : f \in [1..k -> JobItems]} : k \in 0..MaxJobs}

\* arguments of format_timestamp
TsInputs == IsoStrings \cup {None, PyStr(""), PyStr("invalid"), PyInt(5)}

\* every capitalisation of a word
Variants(w) ==
    {[i \in DOMAIN w |-> IF m[i] THEN upper_char(w[i]) ELSE w[i]] : m \in [DOMAIN w -> BOOLEAN]}

StatusWords ==
    {W_live, W_succeeded, W_success, W_building, W_deploying, W_running,
     W_build_failed, W_failed, W_canceled}

\* strings that are none of the nine words
OtherWords ==
    {<<>>, W_NA, W_Error, <<"l", "i", "v">>, <<"l", "i", "v", "e", "s">>, <<"a", "l", "i", "v", "e">>,
     <<"c", "a", "n", "c", "e", "l", "l", "e", "d">>, <<"c", "r", "e", "a", "t", "e", "d">>,
     <<"b", "u", "i", "l", "d", "-", "f", "a", "i", "l", "e", "d">>, <<"l", "i", "v", "e", " ">>}

StatusInputs == UNION {Variants(w) : w \in StatusWords \cup OtherWords}

-----------------------------------------------------------------------------
(* cli.py: main *)

\* what the API answers during one poll of main
LiveInputs == BuildInputs(MaxLiveServices)

Nothing == Output("nothing", 0, <<>>, <<>>, <<>>)

\* time.sleep(10)
SleepInterval == 10

FnIdle == arg = None /\ ret = None /\ called = FALSE

Init ==
    /\ pc = "start"
    /\ once \in BOOLEAN
    /\ api_key \in BOOLEAN
    /\ tz \in LocalZones
    /\ display = Nothing
    /\ log = <<>>
    /\ requests = 0
    /\ clock = 0
    /\ interrupted = FALSE
    /\ stopped = FALSE
    /\ session = "none"
    /\ exit_code = -1
    /\ uncaught = "none"
    /\ FnIdle

\* lines 202-207: the API key is required; `with RenderClient(api_key)` opens
\* the session
CheckApiKey ==
    /\ pc = "start"
    /\ IF ~api_key
       THEN /\ display' = Output("missing_key", 0, <<>>, <<>>, <<>>)
            /\ exit_code' = 1
            /\ pc' = "exited"
            /\ UNCHANGED session
       ELSE /\ session' = "open"
            /\ pc' = IF once THEN "once" ELSE "poll"
            /\ UNCHANGED <<display, exit_code>>
    /\ UNCHANGED <<once, api_key, tz, log, requests, clock, interrupted, stopped, uncaught,
                   arg, ret, called>>

\* lines 208-214 and display_services: one poll, printed; the `with` block
\* closes the session on the way out, also when an exception passes through
ShowOnce(output) ==
    /\ IF output.exc # "none"
       THEN /\ uncaught' = output.exc
            /\ exit_code' = 1
            /\ UNCHANGED display
       ELSE /\ display' = output
            /\ exit_code' = 0
            /\ UNCHANGED uncaught
    /\ requests' = requests + 1
    /\ session' = "closed"
    /\ pc' = "exited"
    /\ UNCHANGED <<once, api_key, tz, log, clock, interrupted, stopped, arg, ret, called>>

SingleRun ==
    /\ pc = "once"
    /\ \E in \in LiveInputs : ShowOnce(build_services_output(in.svc, in.deps, tz))

\* lines 218 and 221: generate_display(client) starts with client.get_services()
BeginPoll ==
    /\ pc = "poll"
    /\ requests < MaxPolls
    /\ requests' = requests + 1
    /\ log' = Append(log, "poll")
    /\ pc' = "polling"
    /\ UNCHANGED <<once, api_key, tz, display, clock, interrupted, stopped, session,
                   exit_code, uncaught, arg, ret, called>>

\* lines 218 and 221: the rest of generate_display, then Live(...) or
\* live.update(...) shows the result.  An exception other than
\* KeyboardInterrupt passes the try and the `with` block, which closes the
\* session, and ends the process with a traceback.
ShowLive(output) ==
    /\ IF output.exc # "none"
       THEN /\ uncaught' = output.exc
            /\ exit_code' = 1
            /\ session' = "closed"
            /\ pc' = "exited"
            /\ UNCHANGED display
       ELSE /\ display' = output
            /\ pc' = "sleep"
            /\ UNCHANGED <<uncaught, exit_code, session>>
    /\ UNCHANGED <<once, api_key, tz, log, requests, clock, interrupted, stopped, arg, ret, called>>

EndPoll ==
    /\ pc = "polling"
    /\ \E in \in LiveInputs : ShowLive(build_services_output(in.svc, in.deps, tz))

\* line 220
Sleep ==
    /\ pc = "sleep"
    /\ clock' = clock + SleepInterval
    /\ log' = Append(log, "sleep")
    /\ pc' = "poll"
    /\ UNCHANGED <<once, api_key, tz, display, requests, interrupted, stopped, session,
                   exit_code, uncaught, arg, ret, called>>

\* Ctrl+C inside the try block of the live mode (lines 217-221): the
\* KeyboardInterrupt unwinds to the except clause
KeyboardInterrupt ==
    /\ pc \in {"poll", "polling", "sleep"}
    /\ interrupted' = TRUE
    /\ pc' = "except"
    /\ UNCHANGED <<once, api_key, tz, display, log, requests, clock, stopped, session,
                   exit_code, uncaught, arg, ret, called>>

\* the live mode without its except clause
ExceptKeyboardInterrupt_uncaught ==
    /\ pc = "except"
    /\ uncaught' = "KeyboardInterrupt"
    /\ session' = "closed"
    /\ exit_code' = 130
    /\ pc' = "exited"
    /\ UNCHANGED <<once, api_key, tz, display, log, requests, clock, interrupted, stopped,
                   arg, ret, called>>

\* lines 222-223, then the end of the `with` block (client.py 37-39) and of main
ExceptKeyboardInterrupt ==
    /\ pc = "except"
    /\ stopped' = TRUE
    /\ session' = "closed"
    /\ exit_code' = 0
    /\ pc' = "exited"
    /\ UNCHANGED <<once, api_key, tz, display, log, requests, clock, interrupted, uncaught,
                   arg, ret, called>>

\* Ctrl+C during the single run, which no except clause handles
KeyboardInterruptOnce ==
    /\ pc = "once"
    /\ interrupted' = TRUE
    /\ uncaught' = "KeyboardInterrupt"
    /\ session' = "closed"
    /\ exit_code' = 130
    /\ pc' = "exited"
    /\ UNCHANGED <<once, api_key, tz, display, log, requests, clock, stopped, arg, ret, called>>

Next ==
    \/ CheckApiKey
    \/ SingleRun
    \/ BeginPoll
    \/ EndPoll
    \/ Sleep
    \/ KeyboardInterrupt
    \/ ExceptKeyboardInterrupt
    \/ KeyboardInterruptOnce

Spec == Init /\ [][Next]_vars

-----------------------------------------------------------------------------
(* Specifications of the functions: the argument is drawn from the inputs,  *)
(* and the one action applies the function to it.                           *)
(*   SpecBuild   build_services_output                                      *)
(*   SpecTs      format_timestamp                                           *)
(*   SpecColor   get_status_color                                           *)
(*   SpecJobs    RenderClient.get_jobs                                      *)

MainIdle ==
    /\ pc = "idle"
    /\ once = FALSE
    /\ api_key = TRUE
    /\ display = Nothing
    /\ log = <<>>
    /\ requests = 0
    /\ clock = 0
    /\ interrupted = FALSE
    /\ stopped = FALSE
    /\ session = "none"
    /\ exit_code = -1
    /\ uncaught = "none"

InitBuild ==
    /\ MainIdle
    /\ tz \in LocalZones
    /\ arg \in BuildInputs(MaxServices)
    /\ ret = Nothing
    /\ called = FALSE

CallBuild ==
    /\ ~called
    /\ ret' = build_services_output(arg.svc, arg.deps, tz)
    /\ called' = TRUE
    /\ UNCHANGED <<mainVars, tz, arg>>

SpecBuild == InitBuild /\ [][CallBuild]_vars

InitTs ==
    /\ MainIdle
    /\ tz \in LocalZones
    /\ arg \in TsInputs
    /\ ret = Return(None)
    /\ called = FALSE

CallFormatTimestamp ==
    /\ ~called
    /\ ret' = format_timestamp(arg, tz)
    /\ called' = TRUE
    /\ UNCHANGED <<mainVars, tz, arg>>

SpecTs == InitTs /\ [][CallFormatTimestamp]_vars

InitColor ==
    /\ MainIdle
    /\ tz = [name |-> "UTC", off |-> 0]
    /\ arg \in StatusInputs
    /\ ret = ""
    /\ called = FALSE

CallGetStatusColor ==
    /\ ~called
    /\ ret' = get_status_color(arg)
    /\ called' = TRUE
    /\ UNCHANGED <<mainVars, tz, arg>>

SpecColor == InitColor /\ [][CallGetStatusColor]_vars

InitJobs ==
    /\ MainIdle
    /\ tz = [name |-> "UTC", off |-> 0]
    /\ arg \in JobsResponses
    /\ ret = ReturnList(<<>>)
    /\ called = FALSE

CallGetJobs ==
    /\ ~called
    /\ ret' = get_jobs(arg)
    /\ called' = TRUE
    /\ UNCHANGED <<mainVars, tz, arg>>

SpecJobs == InitJobs /\ [][CallGetJobs]_vars

-----------------------------------------------------------------------------
(* Properties of build_services_output (SpecBuild) *)

\* the services of the listing in arg
ArgServices == [i \in DOMAIN arg.svc.data |-> arg.svc.data[i].service]

\* the non-cron services whose get_deploys call raises
FailingDeploys ==
    {i \in DOMAIN ArgServices : ArgServices[i].type # "cron_job" /\ arg.deps[i].error}

\* C1: when the deploys request of exactly one non-cron service fails,
\* build_services_output does not raise, the row of that service shows Error
\* in its status cell, and every other row is the row the service gets when
\* no deploys request fails.
C1_DeployFailureIsolated ==
    (called /\ ~arg.svc.error /\ Cardinality(FailingDeploys) = 1) =>
        LET i == CHOOSE k \in FailingDeploys : TRUE IN
        /\ ret.exc = "none"
        /\ Len(ret.rows) = Len(ArgServices)
        /\ ret.rows[i].status = Cell("red", W_Error)
        /\ \A ok \in DeployResponses \ {HttpError} :
              LET other == build_services_output(arg.svc, [arg.deps EXCEPT ![i] = ok], tz) IN
              /\ other.exc = "none"
              /\ \A j \in DOMAIN ArgServices \ {i} : ret.rows[j] = other.rows[j]

\* names of the rows of a table
RowNames(rows) == {rows[k].name : k \in DOMAIN rows}

NamesOfType(cron) ==
    {ArgServices[k].name : k \in {j \in DOMAIN ArgServices : (ArgServices[j].type = "cron_job") = cron}}

\* C2: for a listing of one web_service and one cron_job, build_services_output
\* returns two tables; the main table has a row for the web service only and
\* the cron table a row for the cron job only.  (Stated of the invocations
\* that return; C1 covers the ones that raise.)
C2_CronAbsentFromMainTable ==
    (/\ called
     /\ ~arg.svc.error
     /\ Len(ArgServices) = 2
     /\ {ArgServices[k].type : k \in DOMAIN ArgServices} = {"web_service", "cron_job"}
     /\ ret.exc = "none") =>
        /\ ret.tables = 2
        /\ Len(ret.rows) = 1
        /\ RowNames(ret.rows) = NamesOfType(FALSE)
        /\ Len(ret.cron) = 1
        /\ RowNames(ret.cron) = NamesOfType(TRUE)

\* C3: when get_services raises, build_services_output does not raise: it
\* returns one table with the single error row and no cron table, and makes no
\* call but the get_services one.
C3_ServicesFailureRendered ==
    (called /\ arg.svc.error) =>
        /\ ret.exc = "none"
        /\ ret.tables = 1
        /\ ret.rows = <<[message |-> "Error fetching services", style |-> "red"]>>
        /\ ret.cron = <<>>
        /\ ret.calls = <<GetServicesCall>>

C3_Witness == called /\ arg.svc.error /\ ret.kind = "error" /\ tz.name = "EST"

\* C6: for an empty listing, build_services_output does not raise: it returns
\* the single "No services found" placeholder, with no row of a service, no
\* cron table, and no call but the get_services one.
C6_EmptyListPlaceholder ==
    (called /\ ~arg.svc.error /\ arg.svc.data = <<>>) =>
        /\ ret.exc = "none"
        /\ ret.tables = 1
        /\ ret.rows = <<[message |-> "No services found", style |-> "yellow"]>>
        /\ ret.cron = <<>>
        /\ ret.calls = <<GetServicesCall>>

C6_Witness == called /\ ~arg.svc.error /\ arg.svc.data = <<>> /\ ret.kind = "empty"

\* the get_deploys calls of the non-cron services from the i-th on, in order
RECURSIVE ExpectedDeployCalls(_, _)
ExpectedDeployCalls(services, i) ==
    IF i > Len(services) THEN <<>>
    ELSE (IF services[i].type # "cron_job"
          THEN <<GetDeploysCall(services[i].id, 1)>> ELSE <<>>)
         \o ExpectedDeployCalls(services, i + 1)

\* C10: when the listing succeeds, build_services_output makes one
\* get_services call and then one get_deploys(id, limit=1) call for each
\* non-cron service, in the order of the listing, and no other call; the
\* status of a cron row is succeeded when lastSuccessfulRunAt is present and
\* N/A otherwise.
C10_CallSequence ==
    (called /\ ~arg.svc.error) =>
        /\ ret.calls = <<GetServicesCall>> \o ExpectedDeployCalls(ArgServices, 1)
        /\ ret.exc = "none" =>
              LET crons == cron_filter(ArgServices) IN
              /\ Len(ret.cron) = Len(crons)
              /\ \A k \in DOMAIN crons :
                    ret.cron[k].status =
                        IF crons[k].serviceDetails.lastSuccessfulRunAt # Missing
                        THEN Cell("bold green", W_succeeded)
                        ELSE Cell("", W_NA)

-----------------------------------------------------------------------------
(* Properties of main in live mode (Spec) *)

Count(seq, e) == Cardinality({i \in DOMAIN seq : seq[i] = e})

\* C4: in live mode the first poll comes before any sleep, every later poll
\* follows exactly one sleep of the fixed interval, no poll is repeated within
\* a cycle, and the loop is left on a user interrupt only.
C4_FailedPollContinues ==
    (~once /\ session # "none") =>
        /\ \A i \in DOMAIN log : log[i] = IF i % 2 = 1 THEN "poll" ELSE "sleep"
        /\ requests = Count(log, "poll")
        /\ clock = SleepInterval * Count(log, "sleep")
        /\ pc \in {"except", "exited"} => interrupted

\* C5: in live mode, once the interrupt has arrived no poll is started and
\* nothing but the except clause runs; the run then ends with the Stopped
\* message printed, the session closed, exit code 0 and no uncaught exception.
C5_InterruptEndsCleanly ==
    [][(~once /\ interrupted) =>
          /\ requests' = requests
          /\ log' = log
          /\ clock' = clock
          /\ pc = "except"
          /\ pc' = "exited"
          /\ stopped'
          /\ session' = "closed"
          /\ exit_code' = 0
          /\ uncaught' = "none"]_vars

\* an interrupt during a re-poll, handled
C5_Witness ==
    /\ ~once
    /\ interrupted
    /\ pc = "exited"
    /\ log = <<"poll", "sleep", "poll">>
    /\ stopped

-----------------------------------------------------------------------------
(* Properties of the client and of the formatting functions *)

\* the job objects of a response, whichever the shape of each element
Canonical(data) == [i \in DOMAIN data |-> unwrap_job(data[i])]

\* C7: for a successful response, get_jobs returns the list of the job
\* objects, the same for an envelope-wrapped and for a flat element.
C7_JobsCanonical ==
    (called /\ ~arg.error) => (ret.exc = "none" /\ ret.list = Canonical(arg.data))

Green == {W_live, W_succeeded, W_success}

Yellow == {W_building, W_deploying, W_running}

Red == {W_build_failed, W_failed, W_canceled}

upper(s) == [i \in DOMAIN s |-> upper_char(s[i])]

\* C8: get_status_color is green exactly on the strings whose lower case is
\* live, succeeded or success, yellow exactly on building, deploying, running,
\* red exactly on build_failed, failed, canceled, and white on every other
\* string; the colour of a string is that of its lower case and of its upper
\* case.
C8_StatusColorMapping ==
    called =>
        LET l == lower(arg) IN
        /\ ret \in {"green", "yellow", "red", "white"}
        /\ ret = "green" <=> l \in Green
        /\ ret = "yellow" <=> l \in Yellow
        /\ ret = "red" <=> l \in Red
        /\ ret = "white" <=> l \notin (Green \cup Yellow \cup Red)
        /\ get_status_color(l) = ret
        /\ get_status_color(upper(arg)) = ret

C8_Witness == called /\ arg = W_LIVE /\ ret = "green"

\* C9: format_timestamp never raises; it returns "N/A" for an absent input,
\* the input itself when the input is no ISO-8601 timestamp, and a formatted
\* string for a timestamp only.
C9_NeverRaises ==
    called =>
        /\ ret.exc = "none"
        /\ arg \in {None, PyStr("")} => ret.val = PyStr("N/A")
        /\ (arg.t \in {"str", "int"} /\ arg # PyStr("")) => ret.val = arg
        /\ ret.val.t = "fmt" => arg.t = "iso"

====
